---- MODULE Spec2Model ----
(***************************************************************************)
(* Model of script/crawl-libreoffice.js: the LibreOffice dictionary        *)
(* downloader.  Text is a sequence of characters; the file system is a map *)
(* from a dictionary code to the artifacts stored in its directory; main   *)
(* and processDictionary advance one await at a time.                      *)
(***************************************************************************)
EXTENDS Integers, Sequences, FiniteSets, TLC

VARIABLES
  catalog,    \* the descriptors main iterates over (fixed for a behaviour)
  runsLeft,   \* how many more times the script may be started
  pc,         \* position of main / processDictionary
  i,          \* index in catalog of the descriptor being processed, 0 before the loop
  dirs,       \* codes whose directory exists under DICTIONARIES_DIR
  files,      \* files[code]: function from the artifacts present to their content
  invoked,    \* codes processDictionary was called with in this run, in order
  results,    \* how each of those calls ended, in order
  writeLog,   \* paths <<code, artifact>> written in this run, in order
  fetchLog,   \* urls fetched by the current processDictionary call, in order
  wrote,      \* artifacts written by the current processDictionary call, in order
  dicRes,     \* outcome of the current call's word-list fetch
  affRes,     \* outcome of the current call's affix fetch
  licRes,     \* outcome of the current call's license fetch
  text,       \* normalizer harness: the input string
  out1,       \* normalizer harness: result of the first application
  out2,       \* normalizer harness: result of the second application
  phase       \* normalizer harness: which application has been made

vars ==
  <<catalog, runsLeft, pc, i, dirs, files, invoked, results, writeLog,
    fetchLog, wrote, dicRes, affRes, licRes, text, out1, out2, phase>>

batchVars ==
  <<catalog, runsLeft, pc, i, dirs, files, invoked, results, writeLog,
    fetchLog, wrote, dicRes, affRes, licRes>>

normVars ==
  <<text, out1, out2, phase>>

----------------------------------------------------------------------------
\* Bounds of the model.

\* Longest catalog prefix a batch run iterates over.
NumDicts == 3

\* How many times the script is started in one behaviour.
MaxRuns == 2

\* Longest input of the normalizer harness, in chunks of Chunks.
MaxChunks == 4

----------------------------------------------------------------------------
\* Characters.  A string is a sequence of these.

BOM == "BOM"
CR == "CR"
LF == "LF"
TAB == "TAB"
SP == "SP"
LS == "LS"
PS == "PS"

\* What `$`, `^` (with the m flag) and `.` treat as the end of a line.
LineTerminators ==
  {LF, CR, LS, PS}

\* The class [ \t].
Blank ==
  {SP, TAB}

SetPrefix ==
  <<"S", "E", "T", SP>>

SetUtf8Line ==
  <<"S", "E", "T", SP, "U", "T", "F", "-", "8">>

\* s from position k on
Drop(s, k) ==
  SubSeq(s, k, Len(s))

\* .replace(/^\uFEFF/, '')
StripBOM(s) ==
  IF Len(s) > 0 /\ s[1] = BOM THEN Tail(s) ELSE s

\* .replace(/\r\n/g, '\n')
RECURSIVE ReplaceCRLF(_)
ReplaceCRLF(s) ==
  IF Len(s) = 0 THEN <<>>
  ELSE IF Len(s) >= 2 /\ s[1] = CR /\ s[2] = LF
       THEN <<LF>> \o ReplaceCRLF(Drop(s, 3))
       ELSE <<s[1]>> \o ReplaceCRLF(Tail(s))

\* .replace(/\r/g, '\n')
ReplaceCR(s) ==
  [k \in 1..Len(s) |-> IF s[k] = CR THEN LF ELSE s[k]]

\* Position k lies in a run of blanks that reaches the end of its line: the
\* first non-blank after it is a line terminator or the end of the input.
InTrailingRun(s, k) ==
  /\ s[k] \in Blank
  /\ \E j \in (k + 1)..(Len(s) + 1) :
       /\ \A m \in (k + 1)..(j - 1) : s[m] \in Blank
       /\ (j = Len(s) + 1 \/ s[j] \in LineTerminators)

\* .replace(/[ \t]+$/gm, '')
StripTrailingWs(s) ==
  LET keep[k \in 0..Len(s)] ==
        IF k = 0 THEN <<>>
        ELSE IF InTrailingRun(s, k) THEN keep[k - 1]
             ELSE Append(keep[k - 1], s[k])
  IN keep[Len(s)]

\* .replace(/\n*$/, '\n'): the leftmost match is the whole final run of linefeeds.
RECURSIVE DropFinalLF(_)
DropFinalLF(s) ==
  IF Len(s) > 0 /\ s[Len(s)] = LF THEN DropFinalLF(SubSeq(s, 1, Len(s) - 1)) ELSE s

FinalNewline(s) ==
  Append(DropFinalLF(s), LF)

\* Mutant: the final newline is fixed before trailing whitespace is removed.
normalizeContent_NewlineFirst(content) ==
  StripTrailingWs(FinalNewline(ReplaceCR(ReplaceCRLF(StripBOM(content)))))

\* Mutant: bare carriage returns are left alone.
normalizeContent_KeepBareCR(content) ==
  FinalNewline(StripTrailingWs(ReplaceCRLF(StripBOM(content))))

normalizeContent(content) ==
  FinalNewline(StripTrailingWs(ReplaceCR(ReplaceCRLF(StripBOM(content)))))

\* Position p starts a line (`^` with the m flag) and the line starts with "SET ".
SetMatchAt(s, p) ==
  /\ p + 3 <= Len(s)
  /\ (p = 1 \/ s[p - 1] \in LineTerminators)
  /\ SubSeq(s, p, p + 3) = SetPrefix

\* First position after p + 3 that `.` does not match.
RECURSIVE DotStarEnd(_, _)
DotStarEnd(s, q) ==
  IF q > Len(s) \/ s[q] \in LineTerminators THEN q ELSE DotStarEnd(s, q + 1)

\* content.replace(/^SET .*/m, 'SET UTF-8')
SetUtf8(s) ==
  IF \E p \in 1..Len(s) : SetMatchAt(s, p)
  THEN LET p == CHOOSE p \in 1..Len(s) :
                  /\ SetMatchAt(s, p)
                  /\ \A r \in 1..(p - 1) : ~SetMatchAt(s, r)
           q == DotStarEnd(s, p + 4)
       IN SubSeq(s, 1, p - 1) \o SetUtf8Line \o Drop(s, q)
  ELSE s

\* What processDictionary stores as index.aff for a fetched text.
AffContent(content) ==
  normalizeContent(SetUtf8(content))

----------------------------------------------------------------------------
\* The catalog.  The display name is only printed and is left out; an absent
\* dicPath / affPath is the empty string, which `||` treats like undefined.

CatalogLiteral ==
  <<
    [code |-> "af", folder |-> "af_ZA", license |-> "LGPL-3.0", licenseFile |-> "README_af_ZA.txt",
     dicPath |-> "", affPath |-> ""],
    [code |-> "an", folder |-> "an_ES", license |-> "GPL-3.0", licenseFile |-> "LICENSES-en.txt",
     dicPath |-> "", affPath |-> ""],
    [code |-> "ar", folder |-> "ar", license |-> "GPL-3.0", licenseFile |-> "COPYING.txt",
     dicPath |-> "", affPath |-> ""],
    [code |-> "as", folder |-> "as_IN", license |-> "GPL-2.0", licenseFile |-> "COPYING",
     dicPath |-> "", affPath |-> ""],
    [code |-> "be", folder |-> "be_BY", license |-> "GPL-3.0", licenseFile |-> "README_be_BY.txt",
     dicPath |-> "be-official.dic", affPath |-> "be-official.aff"],
    [code |-> "bn", folder |-> "bn_BD", license |-> "GPL-2.0", licenseFile |-> "COPYING",
     dicPath |-> "", affPath |-> ""],
    [code |-> "bo", folder |-> "bo", license |-> "GPL-3.0", licenseFile |-> "LICENSE-en.txt",
     dicPath |-> "", affPath |-> ""],
    [code |-> "bs", folder |-> "bs_BA", license |-> "GPL-3.0", licenseFile |-> "registration/LICENSE",
     dicPath |-> "", affPath |-> ""],
    [code |-> "ckb", folder |-> "ckb", license |-> "GPL-3.0", licenseFile |-> "LICENSES-en.txt",
     dicPath |-> "dictionaries/ckb.dic", affPath |-> "dictionaries/ckb.aff"],
    [code |-> "gu", folder |-> "gu_IN", license |-> "GPL-3.0", licenseFile |-> "COPYING",
     dicPath |-> "", affPath |-> ""],
    [code |-> "gug", folder |-> "gug", license |-> "GPL-3.0", licenseFile |-> "LICENSE.txt",
     dicPath |-> "", affPath |-> ""],
    [code |-> "hi", folder |-> "hi_IN", license |-> "GPL-2.0", licenseFile |-> "COPYING",
     dicPath |-> "", affPath |-> ""],
    [code |-> "id", folder |-> "id", license |-> "GPL-3.0", licenseFile |-> "LICENSE-dict",
     dicPath |-> "id_ID.dic", affPath |-> "id_ID.aff"],
    [code |-> "it", folder |-> "it_IT", license |-> "GPL-3.0", licenseFile |-> "README_it_IT.txt",
     dicPath |-> "", affPath |-> ""],
    [code |-> "kn", folder |-> "kn_IN", license |-> "GPL-3.0", licenseFile |-> "COPYING",
     dicPath |-> "", affPath |-> ""],
    [code |-> "kmr-Latn", folder |-> "kmr_Latn", license |-> "GPL-3.0", licenseFile |-> "gpl-3.0.txt",
     dicPath |-> "", affPath |-> ""],
    [code |-> "lo", folder |-> "lo_LA", license |-> "GPL-3.0", licenseFile |-> "README_lo_LA.txt",
     dicPath |-> "", affPath |-> ""],
    [code |-> "mr", folder |-> "mr_IN", license |-> "LGPL-3.0", licenseFile |-> "README_mr_IN.txt",
     dicPath |-> "", affPath |-> ""],
    [code |-> "or", folder |-> "or_IN", license |-> "GPL-2.0", licenseFile |-> "COPYING",
     dicPath |-> "", affPath |-> ""],
    [code |-> "pa", folder |-> "pa_IN", license |-> "GPL-2.0", licenseFile |-> "COPYING",
     dicPath |-> "", affPath |-> ""],
    [code |-> "sa", folder |-> "sa_IN", license |-> "GPL-3.0", licenseFile |-> "COPYING",
     dicPath |-> "", affPath |-> ""],
    [code |-> "si", folder |-> "si_LK", license |-> "GPL-3.0", licenseFile |-> "COPYING",
     dicPath |-> "", affPath |-> ""],
    [code |-> "sq", folder |-> "sq_AL", license |-> "GPL-3.0", licenseFile |-> "README_sq_AL.txt",
     dicPath |-> "", affPath |-> ""],
    [code |-> "sw", folder |-> "sw_TZ", license |-> "LGPL-3.0", licenseFile |-> "README_sw_TZ.txt",
     dicPath |-> "", affPath |-> ""],
    [code |-> "ta", folder |-> "ta_IN", license |-> "GPL-3.0", licenseFile |-> "COPYING",
     dicPath |-> "", affPath |-> ""],
    [code |-> "te", folder |-> "te_IN", license |-> "GPL-2.0", licenseFile |-> "COPYING",
     dicPath |-> "", affPath |-> ""],
    [code |-> "th", folder |-> "th_TH", license |-> "LGPL-2.1", licenseFile |-> "README_th_TH.txt",
     dicPath |-> "", affPath |-> ""]
  >>

\* Mutant: the last entry repeats the first entry's code.
LIBREOFFICE_DICTIONARIES_DupCode ==
  [CatalogLiteral EXCEPT ![Len(CatalogLiteral)].code = CatalogLiteral[1].code]

LIBREOFFICE_DICTIONARIES ==
  CatalogLiteral

LIBREOFFICE_BASE_URL ==
  "https://raw.githubusercontent.com/LibreOffice/dictionaries/master"

SOURCE_URL ==
  "https://github.com/LibreOffice/dictionaries"

\* The five artifacts of a dictionary directory, in the order the code writes them.
ArtifactOrder ==
  <<"index.dic", "index.aff", ".spdx", ".source", "license">>

Artifacts ==
  {ArtifactOrder[k] : k \in DOMAIN ArtifactOrder}

\* dict.dicPath || `${folder}.dic`
DicFile(dict) ==
  IF dict.dicPath # "" THEN dict.dicPath ELSE dict.folder \o ".dic"

\* dict.affPath || `${folder}.aff`
AffFile(dict) ==
  IF dict.affPath # "" THEN dict.affPath ELSE dict.folder \o ".aff"

\* `${LIBREOFFICE_BASE_URL}/${folder}/${file}`
Url(dict, file) ==
  <<LIBREOFFICE_BASE_URL, dict.folder, file>>

DicUrl(dict) ==
  Url(dict, DicFile(dict))

AffUrl(dict) ==
  Url(dict, AffFile(dict))

LicenseUrl(dict) ==
  Url(dict, dict.licenseFile)

\* existsSync(path.join(destDir, 'index.dic'))
AlreadyExists_Aff(code) ==
  "index.aff" \in DOMAIN files[code]

AlreadyExists(code) ==
  "index.dic" \in DOMAIN files[code]

\* fs.writeFile(path.join(destDir, artifact), content, 'utf8')
WriteFile(fs, code, artifact, content) ==
  [fs EXCEPT ![code] =
     [a \in (DOMAIN fs[code]) \cup {artifact} |->
        IF a = artifact THEN content ELSE fs[code][a]]]

\* What a fetch can answer: a success with a body, a non-success status, or a
\* rejected promise (network failure).
Responses(bodies) ==
  {[kind |-> "ok", body |-> b] : b \in bodies}
    \cup {[kind |-> "status", body |-> <<>>], [kind |-> "raise", body |-> <<>>]}

\* Bodies the remote serves.
DicBodies ==
  {<<"x", SP, CR, LF, "x">>}

AffBodies ==
  {<<"S", "E", "T", SP, "x", CR, LF, "x", TAB>>}

LicenseBodies ==
  {<<BOM, "x", LF, LF>>}

Codes(cat) ==
  {cat[k].code : k \in DOMAIN cat}

----------------------------------------------------------------------------
\* Initial states.

NoFiles(cat) ==
  [c \in Codes(cat) |-> <<>>]

NormIdle ==
  /\ text = <<>>
  /\ out1 = <<>>
  /\ out2 = <<>>
  /\ phase = "off"

BatchStart(cat, runs, fs, ds) ==
  /\ catalog = cat
  /\ runsLeft = runs
  /\ pc = "idle"
  /\ i = 0
  /\ dirs = ds
  /\ files = fs
  /\ invoked = <<>>
  /\ results = <<>>
  /\ writeLog = <<>>
  /\ fetchLog = <<>>
  /\ wrote = <<>>
  /\ dicRes = "none"
  /\ affRes = "none"
  /\ licRes = "none"

\* The first NumDicts descriptors of the catalog, over an empty dictionaries root.
Prefix ==
  SubSeq(LIBREOFFICE_DICTIONARIES, 1, NumDicts)

Init ==
  /\ BatchStart(Prefix, MaxRuns, NoFiles(Prefix), {})
  /\ NormIdle

\* A dictionaries root left by earlier use: each directory is absent, or holds
\* index.dic and any of the other artifacts.
OldContent ==
  <<"x", LF>>

Populated(cat) ==
  {fs \in [Codes(cat) -> {<<>>} \cup UNION {[S \cup {"index.dic"} -> {OldContent}] : S \in SUBSET Artifacts}] : TRUE}

\* The catalog run over a populated root: one descriptor fewer than Prefix,
\* since every directory starts in seventeen ways.
PopulatedPrefix ==
  SubSeq(LIBREOFFICE_DICTIONARIES, 1, NumDicts - 1)

InitPopulated ==
  /\ \E fs \in Populated(PopulatedPrefix) :
       BatchStart(PopulatedPrefix, MaxRuns, fs,
                  {c \in Codes(PopulatedPrefix) : DOMAIN fs[c] # {}})
  /\ NormIdle

\* One run over two descriptors of the shipped catalog, every pair of them in
\* catalog order, over an empty dictionaries root.
CatalogPairs ==
  {<<LIBREOFFICE_DICTIONARIES[a], LIBREOFFICE_DICTIONARIES[b]>> :
     <<a, b>> \in {w \in (DOMAIN LIBREOFFICE_DICTIONARIES) \X (DOMAIN LIBREOFFICE_DICTIONARIES) :
                     w[1] < w[2]}}

InitCatalog ==
  /\ \E cat \in CatalogPairs : BatchStart(cat, MaxRuns, NoFiles(cat), {})
  /\ NormIdle

----------------------------------------------------------------------------
\* main

CallVarsReset ==
  /\ fetchLog' = <<>>
  /\ wrote' = <<>>
  /\ dicRes' = "none"
  /\ affRes' = "none"
  /\ licRes' = "none"

\* The script is started: the banner, then fs.mkdir(DICTIONARIES_DIR), which is
\* outside every try block.
MainStart ==
  /\ pc \in {"idle", "done", "crashed"}
  /\ runsLeft > 0
  /\ runsLeft' = runsLeft - 1
  /\ i' = 0
  /\ invoked' = <<>>
  /\ results' = <<>>
  /\ writeLog' = <<>>
  /\ CallVarsReset
  /\ \E ok \in BOOLEAN : pc' = IF ok THEN "loop" ELSE "crashed"
  /\ UNCHANGED <<catalog, dirs, files, normVars>>

\* for (const dict of LIBREOFFICE_DICTIONARIES): the next descriptor is handed
\* to processDictionary, or the loop ends and the completion message is printed.
MainLoop ==
  /\ pc = "loop"
  /\ IF i < Len(catalog)
     THEN /\ i' = i + 1
          /\ invoked' = Append(invoked, catalog[i + 1].code)
          /\ pc' = "check"
          /\ CallVarsReset
     ELSE /\ pc' = "done"
          /\ UNCHANGED <<i, invoked, fetchLog, wrote, dicRes, affRes, licRes>>
  /\ UNCHANGED <<catalog, runsLeft, dirs, files, results, writeLog, normVars>>

\* Mutant: the loop has no try/catch, so the exception ends main.
MainCatch_Uncaught ==
  /\ pc = "catch"
  /\ pc' = "crashed"
  /\ UNCHANGED <<catalog, runsLeft, i, dirs, files, invoked, results, writeLog,
                 fetchLog, wrote, dicRes, affRes, licRes, normVars>>

\* catch (error): an exception that left processDictionary is logged.
MainCatch ==
  /\ pc = "catch"
  /\ results' = Append(results, "threw")
  /\ pc' = "loop"
  /\ UNCHANGED <<catalog, runsLeft, i, dirs, files, invoked, writeLog,
                 fetchLog, wrote, dicRes, affRes, licRes, normVars>>

----------------------------------------------------------------------------
\* processDictionary(catalog[i])

Dict ==
  catalog[i]

\* processDictionary returns to the loop of main.
Return(how) ==
  /\ results' = Append(results, how)
  /\ pc' = "loop"

\* One successful fs.writeFile of the current descriptor.
Write(artifact, content) ==
  /\ files' = WriteFile(files, Dict.code, artifact, content)
  /\ wrote' = Append(wrote, artifact)
  /\ writeLog' = Append(writeLog, <<Dict.code, artifact>>)

NoWrite ==
  UNCHANGED <<files, wrote, writeLog>>

\* if (existsSync(index.dic)) return
SkipExisting ==
  /\ pc = "check"
  /\ AlreadyExists(Dict.code)
  /\ Return("skipped")
  /\ UNCHANGED <<catalog, runsLeft, i, dirs, files, invoked, writeLog,
                 fetchLog, wrote, dicRes, affRes, licRes, normVars>>

\* await fs.mkdir(destDir, {recursive: true}); a failure is thrown to main.
MakeDestDir ==
  /\ pc = "check"
  /\ ~AlreadyExists(Dict.code)
  /\ \E ok \in BOOLEAN :
       IF ok
       THEN /\ dirs' = dirs \cup {Dict.code}
            /\ pc' = "dic"
       ELSE /\ pc' = "catch"
            /\ UNCHANGED dirs
  /\ UNCHANGED <<catalog, runsLeft, i, files, invoked, results, writeLog,
                 fetchLog, wrote, dicRes, affRes, licRes, normVars>>

\* Mutant: the catch block of the word-list download does not return.
DownloadDic_NoReturn ==
  /\ pc = "dic"
  /\ \E resp \in Responses(DicBodies), ok \in BOOLEAN :
       /\ fetchLog' = Append(fetchLog, DicUrl(Dict))
       /\ dicRes' = resp.kind
       /\ IF resp.kind = "ok" /\ ok
          THEN Write("index.dic", normalizeContent(resp.body))
          ELSE NoWrite
       /\ pc' = "aff"
  /\ UNCHANGED <<catalog, runsLeft, i, dirs, invoked, results, affRes, licRes, normVars>>

\* The word-list try block: fetch, normalize, write; any failure is logged and
\* processDictionary returns.
DownloadDic ==
  /\ pc = "dic"
  /\ \E resp \in Responses(DicBodies), ok \in BOOLEAN :
       /\ fetchLog' = Append(fetchLog, DicUrl(Dict))
       /\ dicRes' = resp.kind
       /\ IF resp.kind = "ok" /\ ok
          THEN /\ Write("index.dic", normalizeContent(resp.body))
               /\ pc' = "aff"
               /\ UNCHANGED results
          ELSE /\ NoWrite
               /\ Return("failed")
  /\ UNCHANGED <<catalog, runsLeft, i, dirs, invoked, affRes, licRes, normVars>>

\* Mutant: the catch block of the affix download does not return.
DownloadAff_NoReturn ==
  /\ pc = "aff"
  /\ \E resp \in Responses(AffBodies), ok \in BOOLEAN :
       /\ fetchLog' = Append(fetchLog, AffUrl(Dict))
       /\ affRes' = resp.kind
       /\ IF resp.kind = "ok" /\ ok
          THEN Write("index.aff", AffContent(resp.body))
          ELSE NoWrite
       /\ pc' = "spdx"
  /\ UNCHANGED <<catalog, runsLeft, i, dirs, invoked, results, dicRes, licRes, normVars>>

\* The affix try block: fetch, force the SET line, normalize, write; any failure
\* is logged and processDictionary returns.
DownloadAff ==
  /\ pc = "aff"
  /\ \E resp \in Responses(AffBodies), ok \in BOOLEAN :
       /\ fetchLog' = Append(fetchLog, AffUrl(Dict))
       /\ affRes' = resp.kind
       /\ IF resp.kind = "ok" /\ ok
          THEN /\ Write("index.aff", AffContent(resp.body))
               /\ pc' = "spdx"
               /\ UNCHANGED results
          ELSE /\ NoWrite
               /\ Return("failed")
  /\ UNCHANGED <<catalog, runsLeft, i, dirs, invoked, dicRes, licRes, normVars>>

\* Mutant: the provenance stamp is written where the license stamp belongs.
WriteSpdx_SourceFirst ==
  /\ pc = "spdx"
  /\ Write(".source", <<SOURCE_URL, LF>>)
  /\ pc' = "source"
  /\ UNCHANGED <<catalog, runsLeft, i, dirs, invoked, results, fetchLog,
                 dicRes, affRes, licRes, normVars>>

\* await fs.writeFile('.spdx', dict.license + '\n'); a failure is thrown to main.
WriteSpdx ==
  /\ pc = "spdx"
  /\ \E ok \in BOOLEAN :
       IF ok
       THEN /\ Write(".spdx", <<Dict.license, LF>>)
            /\ pc' = "source"
       ELSE /\ NoWrite
            /\ pc' = "catch"
  /\ UNCHANGED <<catalog, runsLeft, i, dirs, invoked, results, fetchLog,
                 dicRes, affRes, licRes, normVars>>

\* await fs.writeFile('.source', url + '\n'); a failure is thrown to main.
WriteSource ==
  /\ pc = "source"
  /\ \E ok \in BOOLEAN :
       IF ok
       THEN /\ Write(".source", <<SOURCE_URL, LF>>)
            /\ pc' = "license"
       ELSE /\ NoWrite
            /\ pc' = "catch"
  /\ UNCHANGED <<catalog, runsLeft, i, dirs, invoked, results, fetchLog,
                 dicRes, affRes, licRes, normVars>>

\* Mutant: a failed license fetch is rethrown instead of swallowed.
DownloadLicense_Rethrow ==
  /\ pc = "license"
  /\ \E resp \in Responses(LicenseBodies), ok \in BOOLEAN :
       /\ fetchLog' = Append(fetchLog, LicenseUrl(Dict))
       /\ licRes' = resp.kind
       /\ IF resp.kind = "ok" /\ ok
          THEN Write("license", normalizeContent(resp.body))
          ELSE NoWrite
       /\ IF resp.kind = "ok"
          THEN Return("done")
          ELSE /\ pc' = "catch"
               /\ UNCHANGED results
  /\ UNCHANGED <<catalog, runsLeft, i, dirs, invoked, dicRes, affRes, normVars>>

\* The license try block: the text is written when the response is ok; a
\* non-success status is ignored and an exception is swallowed.  Then the
\* "done" line and the return.
DownloadLicense ==
  /\ pc = "license"
  /\ \E resp \in Responses(LicenseBodies), ok \in BOOLEAN :
       /\ fetchLog' = Append(fetchLog, LicenseUrl(Dict))
       /\ licRes' = resp.kind
       /\ IF resp.kind = "ok" /\ ok
          THEN Write("license", normalizeContent(resp.body))
          ELSE NoWrite
       /\ Return("done")
  /\ UNCHANGED <<catalog, runsLeft, i, dirs, invoked, dicRes, affRes, normVars>>

Step ==
  \/ MainLoop
  \/ MainCatch
  \/ SkipExisting
  \/ MakeDestDir
  \/ DownloadDic
  \/ DownloadAff
  \/ WriteSpdx
  \/ WriteSource
  \/ DownloadLicense

Next ==
  \/ MainStart
  \/ MainLoop
  \/ MainCatch
  \/ SkipExisting
  \/ MakeDestDir
  \/ DownloadDic
  \/ DownloadAff
  \/ WriteSpdx
  \/ WriteSource
  \/ DownloadLicense

Spec ==
  Init /\ [][Next]_vars

\* Every await settles: a started run keeps taking steps.
FairSpec ==
  Init /\ [][Next]_vars /\ WF_vars(Step)

SpecPopulated ==
  InitPopulated /\ [][Next]_vars

SpecCatalog ==
  InitCatalog /\ [][Next]_vars

----------------------------------------------------------------------------
\* Harness for normalizeContent and the SET rewrite: an input string is drawn
\* and the functions are applied to it.

Chunks ==
  {<<BOM>>, <<CR>>, <<LF>>, <<TAB>>, <<SP>>, <<"x">>, <<"S", "E", "T", SP, "x">>}

RECURSIVE Flatten(_)
Flatten(cs) ==
  IF Len(cs) = 0 THEN <<>> ELSE Head(cs) \o Flatten(Tail(cs))

Texts ==
  {Flatten(cs) : cs \in UNION {[1..n -> Chunks] : n \in 0..MaxChunks}}

InitNorm ==
  /\ BatchStart(Prefix, 0, NoFiles(Prefix), {})
  /\ text \in Texts
  /\ out1 = <<>>
  /\ out2 = <<>>
  /\ phase = "input"

\* content = normalizeContent(content)
ApplyNormalize ==
  /\ phase = "input"
  /\ out1' = normalizeContent(text)
  /\ phase' = "once"
  /\ UNCHANGED <<text, out2, batchVars>>

\* normalizeContent applied to its own output
ApplyNormalizeAgain ==
  /\ phase = "once"
  /\ out2' = normalizeContent(out1)
  /\ phase' = "twice"
  /\ UNCHANGED <<text, out1, batchVars>>

\* The affix pipeline: the SET rewrite, then normalizeContent.
ApplyAffContent ==
  /\ phase = "input"
  /\ out1' = AffContent(text)
  /\ phase' = "aff"
  /\ UNCHANGED <<text, out2, batchVars>>

NextNorm ==
  \/ ApplyNormalize
  \/ ApplyNormalizeAgain
  \/ ApplyAffContent

SpecNorm ==
  InitNorm /\ [][NextNorm]_vars

----------------------------------------------------------------------------
\* Vocabulary of the properties.

Last(s) ==
  s[Len(s)]

Range(s) ==
  {s[k] : k \in DOMAIN s}

\* The lines of s: the pieces between linefeeds.
RECURSIVE Lines(_)
Lines(s) ==
  IF \E k \in DOMAIN s : s[k] = LF
  THEN LET k == CHOOSE k \in DOMAIN s : s[k] = LF /\ \A m \in 1..(k - 1) : s[m] # LF
       IN <<SubSeq(s, 1, k - 1)>> \o Lines(Drop(s, k + 1))
  ELSE <<s>>

StartsWithDoubleBOM(s) ==
  Len(s) >= 2 /\ s[1] = BOM /\ s[2] = BOM

NoCarriageReturn(s) ==
  CR \notin Range(s)

NoLineEndsBlank(s) ==
  \A k \in DOMAIN Lines(s) :
    LET l == Lines(s)[k] IN Len(l) = 0 \/ Last(l) \notin Blank

EndsInOneLinefeed(s) ==
  /\ Len(s) >= 1
  /\ Last(s) = LF
  /\ (Len(s) >= 2 => s[Len(s) - 1] # LF)

\* A line that begins with the token SET followed by a value.
IsSetLine(l) ==
  Len(l) > 4 /\ SubSeq(l, 1, 4) = SetPrefix

\* Index of the first SET line among ls, 0 when there is none.
FirstSetLine(ls) ==
  IF \E k \in DOMAIN ls : IsSetLine(ls[k])
  THEN CHOOSE k \in DOMAIN ls : IsSetLine(ls[k]) /\ \A m \in 1..(k - 1) : ~IsSetLine(ls[m])
  ELSE 0

CatalogCodes ==
  [k \in DOMAIN catalog |-> catalog[k].code]

Present(code) ==
  DOMAIN files[code]

Failed ==
  {"status", "raise"}

Rank(artifact) ==
  CHOOSE r \in DOMAIN ArtifactOrder : ArtifactOrder[r] = artifact

\* processDictionary is past its existence check and working on code.
Populating(code) ==
  i > 0 /\ catalog[i].code = code /\ pc \in {"dic", "aff", "spdx", "source", "license"}

----------------------------------------------------------------------------
\* C1 as stated: normalizeContent is idempotent, for every input:
\* normalizeContent(normalizeContent(x)) = normalizeContent(x).
C1_Idempotent ==
  phase = "twice" => out2 = out1

\* C1 amended: normalizeContent(normalizeContent(x)) = normalizeContent(x) for
\* every input x that does not begin with two byte-order marks.
C1_IdempotentUnlessDoubleBOM ==
  (phase = "twice" /\ ~StartsWithDoubleBOM(text)) => out2 = out1

\* An input with a byte-order mark, a CR LF, a tab and a space has been
\* normalized twice and the two results agree.
C1_Witness ==
  /\ phase = "twice"
  /\ text = <<BOM, CR, LF, TAB>>
  /\ out1 = <<LF>>
  /\ out2 = out1

\* C2: the output of normalizeContent has no carriage return, no line whose
\* last character is a space or a tab, and ends in exactly one linefeed.
C2_CanonicalOutput ==
  phase = "once" =>
    /\ NoCarriageReturn(out1)
    /\ NoLineEndsBlank(out1)
    /\ EndsInOneLinefeed(out1)

\* A non-empty input of spaces, carriage returns and linefeeds only has been
\* normalized to a single linefeed.
C2_Witness ==
  /\ phase = "once"
  /\ text = <<SP, CR, LF, LF>>
  /\ out1 = <<LF>>

\* C8 as stated: in the persisted index.aff the first line that begins with
\* SET and a value reads exactly SET UTF-8, and every other line equals the
\* corresponding line of the normalized fetched text.
C8_SetForcedToUtf8 ==
  phase = "aff" =>
    LET plain == Lines(normalizeContent(text))
        stored == Lines(out1)
        k == FirstSetLine(plain)
    IN /\ Len(stored) = Len(plain)
       /\ \A m \in DOMAIN plain :
            stored[m] = IF m = k THEN SetUtf8Line ELSE plain[m]

----------------------------------------------------------------------------
\* C3 as stated: each descriptor's directory holds no artifacts at all or holds
\* at least both index.dic and index.aff.
C3_NoneOrBoth ==
  \A c \in Codes(catalog) :
    Present(c) = {} \/ {"index.dic", "index.aff"} \subseteq Present(c)

\* C3 amended: each descriptor's directory holds no artifacts at all or holds
\* at least index.dic, and holds index.aff whenever it holds .spdx, .source or
\* license.
C3_NoneOrWordList ==
  \A c \in Codes(catalog) :
    \/ Present(c) = {}
    \/ /\ "index.dic" \in Present(c)
       /\ (Present(c) \cap {".spdx", ".source", "license"} # {} => "index.aff" \in Present(c))

\* A run has ended and left a directory with index.dic alone, because the
\* affix fetch of its descriptor failed.
C3_Witness ==
  /\ pc = "done"
  /\ \E k \in DOMAIN catalog :
       /\ Present(catalog[k].code) = {"index.dic"}
       /\ results[k] = "failed"

\* C4: when processDictionary finds index.dic in the destination directory it
\* fetches nothing, changes no file and returns; and a directory that holds
\* index.dic and is not the one being populated by the current call is never
\* written, in this run or a later one.
C4_ExistingIsUntouched ==
  [][/\ (pc = "check" /\ "index.dic" \in Present(catalog[i].code)) =>
          /\ files' = files
          /\ dirs' = dirs
          /\ fetchLog' = <<>>
          /\ wrote' = <<>>
          /\ pc' = "loop"
          /\ results' = Append(results, "skipped")
     /\ \A c \in Codes(catalog) :
          ("index.dic" \in Present(c) /\ ~Populating(c)) => files'[c] = files[c]
    ]_vars

\* In the last run, a directory that held index.dic and license but no
\* index.aff from the start has just been skipped.
C4_Witness ==
  /\ runsLeft = 0
  /\ pc = "loop"
  /\ i = 2
  /\ results = <<"done", "skipped">>
  /\ Present(catalog[2].code) = {"index.dic", "license"}
  /\ fetchLog = <<>>

\* C5: when the word-list fetch returns a non-success status or raises,
\* processDictionary writes no artifact for the descriptor, fetches nothing
\* else and returns normally.
C5_WordListFailureIsTerminal ==
  dicRes \in Failed =>
    /\ pc \in {"loop", "done"}
    /\ results[i] = "failed"
    /\ wrote = <<>>
    /\ Present(catalog[i].code) = {}
    /\ fetchLog = <<DicUrl(catalog[i])>>

\* The second descriptor's word-list fetch got a non-success status and the
\* call has returned to the loop.
C5_Witness ==
  /\ pc = "loop"
  /\ i = 2
  /\ dicRes = "status"
  /\ results = <<"done", "failed">>

\* C6: main calls processDictionary exactly once per descriptor, in catalog
\* order, whatever the earlier calls did, and a run that has entered the loop
\* reaches the completion message.
C6_BatchCompletes ==
  /\ [](invoked = SubSeq(CatalogCodes, 1, i))
  /\ [](pc = "done" => (invoked = CatalogCodes /\ Len(results) = Len(catalog)))
  /\ ((pc = "loop") ~> (pc = "done"))

\* A run over three descriptors is complete; the second call threw, the first
\* and the third were processed to the end.
C6_Witness ==
  /\ pc = "done"
  /\ results = <<"done", "threw", "done">>
  /\ Present(catalog[1].code) = Artifacts
  /\ Present(catalog[3].code) = Artifacts

\* C7: within a run every write of index.aff, .spdx, .source or license comes
\* directly after the write of the preceding artifact of the same descriptor,
\* and a descriptor's index.dic is its first write, so the writes of one
\* descriptor are in the fixed order and contiguous.
C7_WriteOrder ==
  \A k \in DOMAIN writeLog :
    LET code == writeLog[k][1]
        r == Rank(writeLog[k][2])
    IN IF r = 1
       THEN \A j \in 1..(k - 1) : writeLog[j][1] # code
       ELSE k > 1 /\ writeLog[k - 1] = <<code, ArtifactOrder[r - 1]>>

\* A run has written all five artifacts of two descriptors.
C7_Witness ==
  /\ pc = "done"
  /\ Len(writeLog) = 10
  /\ writeLog[5][2] = "license"
  /\ writeLog[6][2] = "index.dic"

\* C9: when the license fetch returns a non-success status or raises (the
\* word-list and affix fetches having succeeded), processDictionary has
\* written index.dic, index.aff, .spdx (the license identifier and a linefeed)
\* and .source (the upstream URL and a linefeed), writes no license file and
\* returns normally.
C9_LicenseIsBestEffort ==
  licRes \in Failed =>
    /\ dicRes = "ok"
    /\ affRes = "ok"
    /\ pc \in {"loop", "done"}
    /\ results[i] = "done"
    /\ wrote = <<"index.dic", "index.aff", ".spdx", ".source">>
    /\ Present(catalog[i].code) = {"index.dic", "index.aff", ".spdx", ".source"}
    /\ files[catalog[i].code][".spdx"] = <<catalog[i].license, LF>>
    /\ files[catalog[i].code][".source"] = <<SOURCE_URL, LF>>

\* The license fetch of the first descriptor raised and the call returned.
C9_Witness ==
  /\ pc = "loop"
  /\ i = 1
  /\ licRes = "raise"
  /\ results = <<"done">>
  /\ files[catalog[1].code][".spdx"] = <<"LGPL-3.0", LF>>

\* C10: within a run no path is written twice, and the codes of the catalog
\* are pairwise distinct, so no two descriptors write into one directory.
C10_WrittenAtMostOnce ==
  /\ \A j, k \in DOMAIN writeLog : j # k => writeLog[j] # writeLog[k]
  /\ \A a, b \in DOMAIN catalog : a # b => catalog[a].code # catalog[b].code

\* A run over the descriptors be and th has written all ten of their paths.
C10_Witness ==
  /\ pc = "done"
  /\ CatalogCodes = <<"be", "th">>
  /\ Len(writeLog) = 10

====
